---- MODULE Spec2Model ----
(***************************************************************************)
(* State-machine model of the endurance simulator: Accumulator, Vehicle    *)
(* (Kinematics, DynamicLoading, Aerodynamics, four Drivetrains), Track and *)
(* the lap loop of endurance.py (main.py is the same loop for one lap,     *)
(* without the reset).                                                      *)
(*                                                                         *)
(* Numbers.  The program computes with floats; the model computes with     *)
(* integers on a fixed grid.  Every quantity q is held as the integer      *)
(* q * <its Scale>, a quotient is cut toward zero to the grid (Div,        *)
(* MulDiv), and a product too large for the model's integers is clipped to *)
(* +-Big (Mul).  The scales are chosen so that W = V*A, V = A*Ohm,         *)
(* m = (m/s)*s and N = kg*m/s^2 need no conversion factor.                 *)
(***************************************************************************)
EXTENDS Integers, Sequences, FiniteSets, TLC

VARIABLES
    pc,                  \* position of the driver script
    vehicle_parameters,  \* the vehicle JSON document
    vehicle,             \* the Vehicle object
    accumulator,         \* the Accumulator object
    track,               \* the Track object
    lap_num,             \* loop variable of the lap loop
    num_laps,            \* number of laps asked for
    sim_time,            \* elapsed time of the lap
    drive_value,         \* value returned by track.drive, argument of vehicle.update
    net_power            \* total_power - regen_power, argument of accumulator.update

vars == <<pc, vehicle_parameters, vehicle, accumulator, track, lap_num, num_laps,
          sim_time, drive_value, net_power>>

----------------------------------------------------------------------------
(* Number representation *)

\* Body(v) for the value v of e: e is evaluated once however often Body uses it
Bind(e, Body(_)) == CHOOSE r \in { Body(v) : v \in { e } } : TRUE

\* largest magnitude the model's numbers take
Big == 2^30 - 1

Abs(x) == IF x < 0 THEN -x ELSE x

Max(a, b) == IF a >= b THEN a ELSE b

Min(a, b) == IF a <= b THEN a ELSE b

Clip(x) == IF x > Big THEN Big ELSE IF x < -Big THEN -Big ELSE x

\* a * b, clipped to +-Big
MulClip(a, b) ==
    IF a = 0 \/ b = 0 THEN 0
    ELSE IF Abs(a) > Big \div Abs(b)
         THEN (IF (a < 0) = (b < 0) THEN Big ELSE -Big)
         ELSE a * b

Mul(a, b) == Bind(<<a, b>>, LAMBDA t : MulClip(t[1], t[2]))

\* a / b cut toward zero (b # 0)
DivCut(a, b) ==
    IF (a < 0) = (b < 0) THEN Abs(a) \div Abs(b) ELSE -(Abs(a) \div Abs(b))

Div(a, b) == Bind(<<a, b>>, LAMBDA t : DivCut(t[1], t[2]))

\* one doubling step of MulQR: h = <<q, r>> of r0 * (b \div 2) by c
MulQRStep(h, r0, b, c) ==
    LET r2 == 2 * h[2] + (IF b % 2 = 1 THEN r0 ELSE 0)
        q2 == IF h[1] > Big \div 2 THEN Big ELSE 2 * h[1] + (r2 \div c)
    IN  <<Clip(q2), r2 % c>>

\* <<quotient, remainder>> of r * b by c, for 0 <= r < c and b >= 0, by doubling
RECURSIVE MulQR(_, _, _)
MulQR(r, b, c) ==
    IF b = 0 THEN <<0, 0>>
    ELSE Bind(MulQR(r, b \div 2, c), LAMBDA h : MulQRStep(h, r, b, c))

\* x * y / z for x, y >= 0 and z > 0, exact although x * y may exceed Big
MulDivNat(x, y, z) ==
    IF x = 0 \/ y = 0 THEN 0
    ELSE IF x <= Big \div y THEN (x * y) \div z
    ELSE Clip(Mul(x \div z, y) + MulQR(x % z, y, z)[1])

\* a * b / c cut toward zero (c # 0)
MulDiv(a, b, c) ==
    Bind(<<a, b, c>>,
         LAMBDA t : (IF ((t[1] < 0) # (t[2] < 0)) # (t[3] < 0) THEN -1 ELSE 1)
                      * MulDivNat(Abs(t[1]), Abs(t[2]), Abs(t[3])))

\* floor of the square root of n, for 0 <= n < 2^30
Sqrt(n) == Bind(n, LAMBDA m : CHOOSE r \in 0 .. 32767 : r * r <= m /\ (r + 1) * (r + 1) > m)

----------------------------------------------------------------------------
(* Scales: the integer held for a quantity is the quantity times its scale *)

TimeScale    == 10000       \* time: 1/10000 s
VScale       == 10000       \* velocity: 1/10000 m/s; acceleration: 1 m/s^2
DScale       == 100000000   \* track distance, bend radius: 1e-8 m = VScale*TimeScale
DriveScale   == 10000       \* drive command: 1/10000 of full throttle
FScale       == 10          \* force: 0.1 N; mass: 1 kg
LenScale     == 100         \* cg height, wheel base: 1 cm
TorqueScale  == 1000        \* torque: 1 mN.m
WScale       == 100         \* radial velocity: 0.01 rad/s
VoltScale    == 1000        \* voltage: 1 mV
AmpScale     == 100         \* current: 10 mA
PowerScale   == 100000      \* power: 1e-5 W = TorqueScale*WScale = VoltScale*AmpScale
OhmScale     == 1000        \* resistance: 1 mOhm
EnergyScale  == 1000000     \* energy: 1 uJ
WhScale      == 1000000000  \* capacity: 1 nWh
AhScale      == 1000000     \* capacity: 1 uAh = WhScale/VoltScale
TempScale    == 1000000     \* temperature: 1 uK; temperature rate: 1 uK/s
GramScale    == 1000        \* accumulator mass: 1 g; thermal mass: 1 mJ/K
PercentScale == 1000        \* state of charge: 0.001 %
RadiusScale  == 10000       \* tyre radius: 0.1 mm
TenthScale   == 10          \* friction coefficient, gear ratio, torque limit: 0.1
CdScale      == 100         \* drag coefficient, frontal area: 0.01
DensityScale == 1000        \* air density: 0.001 kg/m^3
PiNum        == 355         \* math.pi as PiNum / PiDen
PiDen        == 113

\* the 1/10000 s step of the simulation
timestep == 1

----------------------------------------------------------------------------
(* Accumulator (endurance.py; main.py has the same update) *)

\* usable_capacity_j * (1.0 - initial_soc_percent / 100.0)
InitialEnergyUsed(usable_capacity_j, initial_soc_percent) ==
    MulDiv(usable_capacity_j, 100 * PercentScale - initial_soc_percent,
           100 * PercentScale)

\* Accumulator.__init__(accu_params, initial_soc_percent, initial_temp)
AccumulatorNew(accu_params, initial_soc_percent, initial_temp) ==
    LET total_capacity_j == MulDiv(accu_params.total_capacity_wh, 3600, WhScale \div EnergyScale)
    IN  [ nominal_voltage       |-> accu_params.nominal_voltage,
          max_voltage           |-> accu_params.max_voltage,
          min_voltage           |-> accu_params.min_voltage,
          min_voltage_ams_fault |-> accu_params.min_voltage_ams_fault,
          total_capacity_wh     |-> accu_params.total_capacity_wh,
          total_capacity_ah     |-> Div(accu_params.total_capacity_wh,
                                        accu_params.nominal_voltage),
          max_current           |-> accu_params.max_current,
          max_power             |-> Mul(accu_params.max_power, 1000),
          total_mass            |-> accu_params.total_mass,
          num_series            |-> accu_params.num_series,
          num_parallel          |-> accu_params.num_parallel,
          total_cells           |-> accu_params.num_series * accu_params.num_parallel,
          internal_resistance   |-> accu_params.internal_resistance,
          cell_temp             |-> initial_temp,
          ambient_temp          |-> 25 * TempScale,
          thermal_mass          |-> accu_params.total_mass * 900,
          cooling_coefficient   |-> 15,
          total_capacity_j      |-> total_capacity_j,
          usable_capacity_j     |-> total_capacity_j,
          energy_used_j         |-> InitialEnergyUsed(total_capacity_j, initial_soc_percent),
          current_discharge_a   |-> 0,
          pack_voltage          |-> accu_params.nominal_voltage,
          voltage_sag           |-> 0,
          c_rate                |-> 0,
          power_loss_w          |-> 0 ]

\* Accumulator.get_soc_percent
get_soc_percent(self) ==
    MulDiv(self.usable_capacity_j - self.energy_used_j, 100 * PercentScale,
           self.usable_capacity_j)

\* open_circuit_voltage of Accumulator.update: linear in the state of charge
open_circuit_voltage(self) ==
    self.min_voltage
      + MulDiv(self.max_voltage - self.min_voltage, get_soc_percent(self),
               100 * PercentScale)

\* desired_current = power_draw_w / open_circuit_voltage if open_circuit_voltage > 0 else 0
desired_current(power_draw_w, ocv) ==
    IF ocv > 0 THEN Div(power_draw_w, ocv) ELSE 0

\* the discharge limit left out: the desired current is drawn whatever its size
CurrentUnlimited(self, power_draw_w, ocv) ==
    <<desired_current(power_draw_w, ocv), power_draw_w>>

\* the power always recomputed from the current, also when nothing was clamped
CurrentLimitPowerFromCurrent(self, power_draw_w, ocv) ==
    IF desired_current(power_draw_w, ocv) > self.max_current
    THEN <<self.max_current, Mul(self.max_current, ocv)>>
    ELSE <<desired_current(power_draw_w, ocv), Mul(desired_current(power_draw_w, ocv), ocv)>>

\* the hard discharge limit: <<actual_current, actual_power>> before the regen check
CurrentLimit(self, power_draw_w, ocv) ==
    IF desired_current(power_draw_w, ocv) > self.max_current
    THEN <<self.max_current, Mul(self.max_current, ocv)>>
    ELSE <<desired_current(power_draw_w, ocv), power_draw_w>>

\* the regen over-voltage check: <<actual_current, actual_power>> after it
RegenLimit(self, power_draw_w, ocv, limited) ==
    LET desired       == desired_current(power_draw_w, ocv)
        regen_voltage == ocv - MulDiv(desired, self.internal_resistance * VoltScale,
                                      AmpScale * OhmScale)
        max_regen_current == MulDiv(self.max_voltage - ocv, AmpScale * OhmScale,
                                    self.internal_resistance * VoltScale)
        actual_current == Max(max_regen_current, desired)
    IN  IF power_draw_w < 0 /\ regen_voltage > self.max_voltage
        THEN <<actual_current, Mul(actual_current, ocv)>>
        ELSE limited

\* actual_power * timestep in energy units; a non-zero power moves the energy by
\* at least one unit, as the product of two non-zero floats is not zero
PowerTimesStep(actual_power, dt) ==
    Bind(MulDiv(actual_power, dt * EnergyScale, PowerScale * TimeScale), LAMBDA energy :
         IF energy # 0 \/ actual_power = 0 \/ dt = 0 THEN energy
         ELSE IF (actual_power < 0) = (dt < 0) THEN 1 ELSE -1)

\* energy_delta_j: the 1.5 multiplier applies to discharge only
EnergyDelta(actual_power, dt) ==
    IF actual_power > 0
    THEN MulDiv(PowerTimesStep(actual_power, dt), 3, 2)
    ELSE PowerTimesStep(actual_power, dt)

\* the hard voltage limits left out
PackVoltageUnclamped(self, ocv, actual_current, voltage_sag) ==
    IF actual_current >= 0 THEN ocv - voltage_sag ELSE ocv + voltage_sag

\* pack voltage from open-circuit voltage and sag, then the hard voltage limits
PackVoltage(self, ocv, actual_current, voltage_sag) ==
    Max(Min(IF actual_current >= 0 THEN ocv - voltage_sag ELSE ocv + voltage_sag,
            self.max_voltage),
        self.min_voltage)

\* voltage_sag = abs(current_discharge_a) * internal_resistance
VoltageSag(self, actual_current) ==
    MulDiv(Abs(actual_current), self.internal_resistance * VoltScale, AmpScale * OhmScale)

\* power_loss_w = current_discharge_a ** 2 * internal_resistance
PowerLoss(self, actual_current) ==
    MulDiv(Mul(actual_current, actual_current), self.internal_resistance * PowerScale,
           AmpScale * AmpScale * OhmScale)

\* the cooling term taken with the wrong sign: ambient_temp - cell_temp
TempDeltaCoolingReversed(self, power_loss_w, dt) ==
    LET cooling_power == MulDiv(self.cooling_coefficient * (self.ambient_temp - self.cell_temp),
                                PowerScale, TempScale)
        temp_rate     == MulDiv(power_loss_w - cooling_power,
                                (TempScale \div PowerScale) * GramScale, self.thermal_mass)
    IN  MulDiv(temp_rate, dt, TimeScale)

\* temp_rate * timestep of the thermal model, from the power loss of this step
TempDelta(self, power_loss_w, dt) ==
    LET cooling_power == MulDiv(self.cooling_coefficient * (self.cell_temp - self.ambient_temp),
                                PowerScale, TempScale)
        temp_rate     == MulDiv(power_loss_w - cooling_power,
                                (TempScale \div PowerScale) * GramScale, self.thermal_mass)
    IN  MulDiv(temp_rate, dt, TimeScale)

\* the assignments of Accumulator.update, given ocv and <<actual_current, actual_power>>
AccumulatorStore(self, ocv, lim, dt) ==
    [ self EXCEPT
      !.energy_used_j       = @ + EnergyDelta(lim[2], dt),
      !.current_discharge_a = lim[1],
      !.c_rate              = IF self.total_capacity_ah > 0
                              THEN MulDiv(lim[1], AhScale \div AmpScale,
                                          self.total_capacity_ah)
                              ELSE 0,
      !.voltage_sag         = VoltageSag(self, lim[1]),
      !.pack_voltage        = PackVoltage(self, ocv, lim[1], VoltageSag(self, lim[1])),
      !.power_loss_w        = PowerLoss(self, lim[1]),
      !.cell_temp           = @ + TempDelta(self, PowerLoss(self, lim[1]), dt) ]

\* Accumulator.update(power_draw_w, timestep)
AccumulatorUpdate(self, power_draw_w, dt) ==
    Bind(open_circuit_voltage(self), LAMBDA ocv :
    Bind(RegenLimit(self, power_draw_w, ocv, CurrentLimit(self, power_draw_w, ocv)),
         LAMBDA lim : AccumulatorStore(self, ocv, lim, dt)))

\* Accumulator.get_energy_remaining_kwh, here in energy units
get_energy_remaining(self) == self.usable_capacity_j - self.energy_used_j

----------------------------------------------------------------------------
(* Tyre, Motor, Gearbox, Drivetrain (drivetrain.py) *)

\* TyreClass.__init__
TyreNew ==
    [ radius                  |-> 2032,
      friction_coefficient    |-> 15,
      fz                      |-> 0,
      producable_grip_force   |-> 0,
      produceable_grip_torque |-> 0,
      radial_velocity         |-> 0,
      torque                  |-> 0,
      tractive_force          |-> 0 ]

\* TyreClass.update(vehicle_velocity, fz, drive_torque, brake_torque)
TyreUpdate(self, vehicle_velocity, fz, drive_torque, brake_torque) ==
    Bind(drive_torque + brake_torque, LAMBDA torque :
    Bind(MulDiv(fz, self.friction_coefficient, TenthScale), LAMBDA producable_grip_force :
         [ self EXCEPT
           !.radial_velocity = MulDiv(vehicle_velocity, RadiusScale * WScale,
                                      self.radius * VScale),
           !.fz = fz,
           !.torque = torque,
           !.producable_grip_force = producable_grip_force,
           !.produceable_grip_torque = MulDiv(producable_grip_force,
                                              self.radius * TorqueScale,
                                              FScale * RadiusScale),
           !.tractive_force = MulDiv(torque, FScale * RadiusScale,
                                     TorqueScale * self.radius) ]))

\* MotorClass.__init__(power_limit)
MotorNew(power_limit) ==
    [ max_rpm             |-> 20000,
      max_radial_velocity |-> MulDiv(MulDiv(20000 * 2, PiNum, PiDen), WScale, 60),
      power_limit         |-> power_limit,
      torque_limit        |-> MulDiv(316, TorqueScale, TenthScale),
      radial_velocity     |-> 0,
      torque_request      |-> 0,
      producable_torque   |-> 0,
      torque              |-> 0,
      power               |-> 0 ]

\* producable torque before the RPM derate: the lower of power limit and torque limit
PowerLimitedTorque(self, radial_velocity) ==
    Bind(IF radial_velocity # 0
         THEN Div(self.power_limit, radial_velocity)
         ELSE self.torque_limit,
         LAMBDA power_limited_torque :
         IF power_limited_torque < self.torque_limit
         THEN power_limited_torque
         ELSE self.torque_limit)

\* the derate factor remaining / 600 applied at every speed, above 1 included
RpmDerateAlways(self, radial_velocity, producable_torque) ==
    MulDiv(producable_torque, self.max_radial_velocity - radial_velocity, 600 * WScale)

\* the derate factor floored at zero
RpmDerateFloored(self, radial_velocity, producable_torque) ==
    LET radial_velocty_remaining == self.max_radial_velocity - radial_velocity
    IN  IF radial_velocty_remaining < 600 * WScale
        THEN MulDiv(producable_torque, Max(radial_velocty_remaining, 0), 600 * WScale)
        ELSE producable_torque

\* producable torque times rpm_limit_derate_factor (1, or remaining / 600)
RpmDerate(self, radial_velocity, producable_torque) ==
    LET radial_velocty_remaining == self.max_radial_velocity - radial_velocity
    IN  IF radial_velocty_remaining < 600 * WScale
        THEN MulDiv(producable_torque, radial_velocty_remaining, 600 * WScale)
        ELSE producable_torque

\* MotorClass.update(radial_velocity, torque_request)
MotorUpdate(self, radial_velocity, torque_request) ==
    Bind(RpmDerate(self, radial_velocity, PowerLimitedTorque(self, radial_velocity)),
         LAMBDA producable_torque :
    Bind(IF torque_request > producable_torque THEN producable_torque ELSE torque_request,
         LAMBDA torque :
         [ self EXCEPT
           !.radial_velocity   = radial_velocity,
           !.torque_request    = torque_request,
           !.producable_torque = producable_torque,
           !.torque            = torque,
           !.power             = Mul(torque, radial_velocity) ]))

\* GearboxClass
GearboxNew(gear_ratio) == [ gear_ratio |-> gear_ratio ]

velocity_wheel_to_motor(self, wheel_velocity) ==
    MulDiv(wheel_velocity, self.gear_ratio, TenthScale)

velocity_motor_to_wheel(self, motor_velocity) ==
    MulDiv(motor_velocity, TenthScale, self.gear_ratio)

torque_wheel_to_motor(self, wheel_torque) ==
    MulDiv(wheel_torque, TenthScale, self.gear_ratio)

torque_motor_to_wheel(self, motor_torque) ==
    MulDiv(motor_torque, self.gear_ratio, TenthScale)

\* Drivetrain.__init__(drivetrain_parameters); max_current defaults to 200 A
DrivetrainNew(drivetrain_parameters) ==
    [ tyre        |-> TyreNew,
      gearbox     |-> GearboxNew(drivetrain_parameters.gear_ratio),
      motor       |-> MotorNew(drivetrain_parameters.power_limit),
      max_current |-> IF "max_current" \in DOMAIN drivetrain_parameters
                      THEN drivetrain_parameters.max_current
                      ELSE 200 * AmpScale,
      regen_limit |-> drivetrain_parameters.regen_limit,
      regen_power |-> 0 ]

\* the motor stepped with its nominal limit whatever the pack voltage
VoltageUnderated(self, pack_voltage) == self.motor.power_limit

\* voltage_derated_power: min(motor.power_limit, pack_voltage * max_current)
VoltageDeratedPower(self, pack_voltage) ==
    LET max_power_from_voltage ==
            IF pack_voltage > 0
            THEN Mul(pack_voltage, self.max_current)
            ELSE self.motor.power_limit
    IN  Min(self.motor.power_limit, max_power_from_voltage)

\* <<motor_torque_request, tyre_braking_torque>> for a drive command
DriveTorques(self, drive) ==
    IF drive > 0
    THEN <<MulDiv(drive,
                  torque_wheel_to_motor(self.gearbox, self.tyre.produceable_grip_torque),
                  DriveScale),
           0>>
    ELSE IF drive = 0
         THEN <<0, 0>>
         ELSE <<0, MulDiv(drive, self.tyre.produceable_grip_torque, DriveScale)>>

\* the braking power taken as it comes, whatever regen_limit says
RegenPowerUnlimited(self, tyre_braking_torque, radial_velocity) ==
    Mul(-tyre_braking_torque, radial_velocity)

\* regen_power = -tyre_braking_torque * tyre.radial_velocity, at most regen_limit
RegenPower(self, tyre_braking_torque, radial_velocity) ==
    LET regen_power == Mul(-tyre_braking_torque, radial_velocity)
    IN  IF regen_power > self.regen_limit THEN self.regen_limit ELSE regen_power

\* the restore left out: the motor keeps the derated limit
KeepPowerLimit(motor, original_power_limit) == motor

\* self.motor.power_limit = original_power_limit, the last statement of update
RestorePowerLimit(motor, original_power_limit) ==
    [ motor EXCEPT !.power_limit = original_power_limit ]

\* the assignments of Drivetrain.update, given the stepped motor and tyre
DrivetrainStore(self, motor, tyre, tyre_braking_torque, original_power_limit) ==
    [ self EXCEPT
      !.motor       = RestorePowerLimit(motor, original_power_limit),
      !.tyre        = tyre,
      !.regen_power = RegenPower(self, tyre_braking_torque, tyre.radial_velocity) ]

\* Drivetrain.update(vehicle_velocity, fz, drive, pack_voltage)
DrivetrainUpdate(self, vehicle_velocity, fz, drive, pack_voltage) ==
    Bind(DriveTorques(self, drive), LAMBDA torques :
    Bind(velocity_wheel_to_motor(self.gearbox, self.tyre.radial_velocity),
         LAMBDA motor_velocity :
    Bind([ self.motor EXCEPT !.power_limit = VoltageDeratedPower(self, pack_voltage) ],
         LAMBDA derated :
    Bind(MotorUpdate(derated, motor_velocity, torques[1]), LAMBDA motor :
    Bind(TyreUpdate(self.tyre, vehicle_velocity, fz,
                    torque_motor_to_wheel(self.gearbox, motor.torque), torques[2]),
         LAMBDA tyre :
         DrivetrainStore(self, motor, tyre, torques[2], self.motor.power_limit))))))

\* the pack_voltage default of Drivetrain.update, 489.6 V
default_pack_voltage == 489600

----------------------------------------------------------------------------
(* DynamicLoading, Aerodynamics, Kinematics, Vehicle *)

\* DynamicLoading.__init__(mass, dynamic_loading_parameters)
DynamicLoadingNew(mass, dynamic_loading_parameters) ==
    LET weight == mass * 10 * FScale
    IN  [ weight     |-> weight,
          FR_z       |-> Div(weight, 4),
          FL_z       |-> Div(weight, 4),
          RR_z       |-> Div(weight, 4),
          RL_z       |-> Div(weight, 4),
          cg_height  |-> dynamic_loading_parameters.cg_height,
          wheel_base |-> dynamic_loading_parameters.wheel_base ]

\* f_z_delta / 2, cut to a whole number of 0.2 N: the tyre's friction coefficient
\* 1.5 then multiplies every corner load without a remainder
HalfDelta(f_z_delta) == 2 * Div(f_z_delta, 4)

\* the load taken off the front axle and not put on the rear one
DynamicLoadingUpdateFrontOnly(self, vehicle_f_x) ==
    Bind(IF vehicle_f_x # 0
         THEN MulDiv(Mul(vehicle_f_x, self.cg_height), 2, self.wheel_base)
         ELSE 0,
         LAMBDA f_z_delta :
         [ self EXCEPT
           !.FR_z = Div(self.weight, 4) - HalfDelta(f_z_delta),
           !.FL_z = Div(self.weight, 4) - HalfDelta(f_z_delta),
           !.RR_z = Div(self.weight, 4),
           !.RL_z = Div(self.weight, 4) ])

\* DynamicLoading.update(vehicle_f_x)
DynamicLoadingUpdate(self, vehicle_f_x) ==
    Bind(IF vehicle_f_x # 0
         THEN MulDiv(Mul(vehicle_f_x, self.cg_height), 2, self.wheel_base)
         ELSE 0,
         LAMBDA f_z_delta :
         [ self EXCEPT
           !.FR_z = Div(self.weight, 4) - HalfDelta(f_z_delta),
           !.FL_z = Div(self.weight, 4) - HalfDelta(f_z_delta),
           !.RR_z = Div(self.weight, 4) + HalfDelta(f_z_delta),
           !.RL_z = Div(self.weight, 4) + HalfDelta(f_z_delta) ])

\* Aerodynamics.__init__(parameters)
AerodynamicsNew(parameters) ==
    [ cd          |-> parameters.cd,
      front_area  |-> parameters.front_area,
      air_density |-> 1225,
      drag_force  |-> 0 ]

\* Aerodynamics.update(velocity): 0.5 * air_density * velocity^2 * cd * front_area
AerodynamicsUpdate(self, velocity) ==
    [ self EXCEPT
      !.drag_force =
          MulDiv(MulDiv(MulDiv(Mul(velocity, velocity),
                               self.air_density, 2 * DensityScale),
                        self.cd, CdScale * VScale),
                 self.front_area * FScale, CdScale * VScale) ]

\* Kinematics.__init__(mass)
KinematicsNew(mass) == [ mass |-> mass, acceleration |-> 0, velocity |-> 0 ]

\* the acceleration computed and never integrated: the velocity stays what it was
KinematicsUpdateAtRest(self, longitudinal_force) ==
    [ self EXCEPT !.acceleration = Div(longitudinal_force, FScale * self.mass) ]

\* Kinematics.update(longitudinal_force): forward Euler with the global timestep
KinematicsUpdate(self, longitudinal_force) ==
    Bind(Div(longitudinal_force, FScale * self.mass), LAMBDA acceleration :
         [ self EXCEPT
           !.acceleration = acceleration,
           !.velocity = @ + MulDiv(acceleration * timestep, VScale, TimeScale) ])

\* the distance taken as a magnitude, whichever of the two speeds is the higher
braking_distance_magnitude(self, target_speed, braking_force) ==
    Abs(MulDiv(Mul(target_speed, target_speed) - Mul(self.velocity, self.velocity),
               FScale * self.mass, 2 * (-braking_force)))

\* Kinematics.braking_distance(target_speed, braking_force)
braking_distance(self, target_speed, braking_force) ==
    MulDiv(Mul(target_speed, target_speed) - Mul(self.velocity, self.velocity),
           FScale * self.mass, 2 * (-braking_force))

\* the assignments of Vehicle.update, given the stepped parts
VehicleStore(self, dl, aero, FL, FR, RL, RR) ==
    Bind(FL.tyre.tractive_force + FR.tyre.tractive_force
           + RL.tyre.tractive_force + RR.tyre.tractive_force,
         LAMBDA vehicle_tractive_force :
         [ self EXCEPT
           !.dynamic_loading = dl,
           !.aerodynamics    = aero,
           !.FL_drivetrain   = FL,
           !.FR_drivetrain   = FR,
           !.RL_drivetrain   = RL,
           !.RR_drivetrain   = RR,
           !.vehicle_tractive_force = vehicle_tractive_force,
           !.longitudinal_force     = vehicle_tractive_force - aero.drag_force,
           !.producable_grip_force  =
               FL.tyre.producable_grip_force + FR.tyre.producable_grip_force
                 + RL.tyre.producable_grip_force + RR.tyre.producable_grip_force,
           !.kinematics = KinematicsUpdate(self.kinematics,
                                           vehicle_tractive_force - aero.drag_force) ])

\* one drivetrain stepped, inside the lap loop, at the accumulator's pack voltage
StepDrivetrainAtPackVoltage(drivetrain, velocity, fz, drive) ==
    DrivetrainUpdate(drivetrain, velocity, fz, drive,
                     IF pc = "vehicle_update" THEN accumulator.pack_voltage
                     ELSE default_pack_voltage)

\* one drivetrain as Vehicle.update steps it: pack_voltage is left at its default
StepDrivetrain(drivetrain, velocity, fz, drive) ==
    DrivetrainUpdate(drivetrain, velocity, fz, drive, default_pack_voltage)

\* Vehicle.update(drive)
VehicleUpdate(self, drive) ==
    Bind(DynamicLoadingUpdate(self.dynamic_loading, self.longitudinal_force), LAMBDA dl :
    Bind(AerodynamicsUpdate(self.aerodynamics, self.kinematics.velocity), LAMBDA aero :
    Bind(StepDrivetrain(self.FL_drivetrain, self.kinematics.velocity, dl.FL_z, drive),
         LAMBDA FL :
    Bind(StepDrivetrain(self.FR_drivetrain, self.kinematics.velocity, dl.FR_z, drive),
         LAMBDA FR :
    Bind(StepDrivetrain(self.RL_drivetrain, self.kinematics.velocity, dl.RL_z, drive),
         LAMBDA RL :
    Bind(StepDrivetrain(self.RR_drivetrain, self.kinematics.velocity, dl.RR_z, drive),
         LAMBDA RR :
         VehicleStore(self, dl, aero, FL, FR, RL, RR)))))))

\* the fields Vehicle.__init__ sets before its closing self.update(0)
VehicleFields(parameters) ==
    [ mass            |-> parameters.mass,
      kinematics      |-> KinematicsNew(parameters.mass),
      dynamic_loading |-> DynamicLoadingNew(parameters.mass, parameters.dynamic_loading),
      aerodynamics    |-> AerodynamicsNew(parameters.aerodynamics),
      FL_drivetrain   |-> DrivetrainNew(parameters.FL_drivetrain),
      FR_drivetrain   |-> DrivetrainNew(parameters.FR_drivetrain),
      RL_drivetrain   |-> DrivetrainNew(parameters.RL_drivetrain),
      RR_drivetrain   |-> DrivetrainNew(parameters.RR_drivetrain),
      vehicle_tractive_force |-> 0,
      longitudinal_force     |-> 0,
      producable_grip_force  |-> 1 * FScale,
      drag_force             |-> 0 ]

\* Vehicle.__init__(vehicle_parameters)
VehicleNew(parameters) ==
    Bind(VehicleFields(parameters), LAMBDA self : VehicleUpdate(self, 0))

\* Vehicle.get_total_power
get_total_power(self) ==
    self.RL_drivetrain.motor.power + self.RR_drivetrain.motor.power
      + self.FL_drivetrain.motor.power + self.FR_drivetrain.motor.power

\* regen_power summed over the four drivetrains in the lap loop
get_total_regen(self) ==
    self.RL_drivetrain.regen_power + self.RR_drivetrain.regen_power
      + self.FL_drivetrain.regen_power + self.FR_drivetrain.regen_power

----------------------------------------------------------------------------
(* TrackSegment and Track (track.py) *)

\* TrackSegment.__init__(length, bend_radius, bend_angle); a bend's length is its arc
TrackSegmentNew(length, bend_radius, bend_angle) ==
    Bind(IF bend_angle # 0
         THEN MulDiv(MulDiv(2 * bend_radius, PiNum, PiDen), bend_angle, 360)
         ELSE length,
         LAMBDA len :
         [ length             |-> len,
           bend_radius        |-> bend_radius,
           distance_travelled |-> 0,
           velocity_limit     |-> 1000 * VScale,
           exit_velocity      |-> 1000 * VScale,
           braking            |-> FALSE,
           distance_remaining |-> len ])

\* the segment completes as soon as distance_travelled reaches its length
TrackSegmentUpdateAtLength(self, vehicle_velocity, dt) ==
    Bind(self.distance_travelled + vehicle_velocity * dt, LAMBDA distance_travelled :
         << [ self EXCEPT
              !.distance_travelled = distance_travelled,
              !.distance_remaining = self.length - distance_travelled ],
            ~(distance_travelled >= self.length) >>)

\* TrackSegment.update(vehicle_velocity, timestep): <<segment, returned value>>
TrackSegmentUpdate(self, vehicle_velocity, dt) ==
    Bind(self.distance_travelled + vehicle_velocity * dt, LAMBDA distance_travelled :
         << [ self EXCEPT
              !.distance_travelled = distance_travelled,
              !.distance_remaining = self.length - distance_travelled ],
            ~(distance_travelled > self.length) >>)

\* the velocity error returned as the command, without the clamp to [-1, 1]
velocity_hold_unclamped(target_velocity, current_velocity) ==
    MulDiv((target_velocity - current_velocity) * 1, DriveScale, VScale)

\* TrackSegment.velocity_hold_PID(target_velocity, current_velocity)
velocity_hold_PID(target_velocity, current_velocity) ==
    Bind(MulDiv((target_velocity - current_velocity) * 1, DriveScale, VScale),
         LAMBDA drive_request :
         IF drive_request > DriveScale THEN DriveScale
         ELSE IF drive_request < -DriveScale THEN -DriveScale
         ELSE drive_request)

\* the braking-point test of TrackSegment.drive
ReachedBrakingPoint(self, veh) ==
    self.distance_remaining
      <= braking_distance(veh.kinematics, self.exit_velocity, veh.producable_grip_force)

\* the flag recomputed in every call instead of latched
TrackSegmentDriveUnlatched(self, veh) ==
    Bind([ self EXCEPT !.braking = ReachedBrakingPoint(self, veh) ],
         LAMBDA seg :
         IF seg.braking
         THEN IF veh.kinematics.velocity > seg.exit_velocity
              THEN <<seg, -DriveScale>>
              ELSE <<seg, velocity_hold_PID(seg.exit_velocity, veh.kinematics.velocity)>>
         ELSE <<seg, velocity_hold_PID(seg.velocity_limit, veh.kinematics.velocity)>>)

\* TrackSegment.drive(vehicle): <<segment, returned drive command>>
TrackSegmentDrive(self, veh) ==
    Bind([ self EXCEPT !.braking = IF ReachedBrakingPoint(self, veh) THEN TRUE ELSE @ ],
         LAMBDA seg :
         IF seg.braking
         THEN IF veh.kinematics.velocity > seg.exit_velocity
              THEN <<seg, -DriveScale>>
              ELSE <<seg, velocity_hold_PID(seg.exit_velocity, veh.kinematics.velocity)>>
         ELSE <<seg, velocity_hold_PID(seg.velocity_limit, veh.kinematics.velocity)>>)

\* TrackSegment.compute_velocity_limit(vehicle): v = sqrt(f * r / m) on a bend
compute_velocity_limit(self, veh) ==
    IF self.bend_radius # 0
    THEN [ self EXCEPT
           !.velocity_limit =
               Sqrt(MulDiv(veh.producable_grip_force, self.bend_radius,
                           FScale * veh.mass)) ]
    ELSE self

\* the exit velocity written to the segment itself instead of the one before it
TrackInitStepOwnLimit(segments, veh, i) ==
    Bind([ segments EXCEPT ![i + 1] = compute_velocity_limit(@, veh) ], LAMBDA limited :
         IF i > 0
         THEN [ limited EXCEPT ![i + 1].exit_velocity = limited[i + 1].velocity_limit ]
         ELSE limited)

\* one pass of the loop of Track.__init__ for index i (0-based)
TrackInitStep(segments, veh, i) ==
    Bind([ segments EXCEPT ![i + 1] = compute_velocity_limit(@, veh) ], LAMBDA limited :
         IF i > 0
         THEN [ limited EXCEPT ![i].exit_velocity = limited[i + 1].velocity_limit ]
         ELSE limited)

\* the loop of Track.__init__: for i in range(len(self.track_segment))
RECURSIVE TrackInitLoop(_, _, _)
TrackInitLoop(segments, veh, i) ==
    IF i >= Len(segments) THEN segments
    ELSE Bind(TrackInitStep(segments, veh, i), LAMBDA next : TrackInitLoop(next, veh, i + 1))

\* Track.__init__(track_segments, vehicle)
TrackNew(track_segments, veh) ==
    [ current_segment_index |-> 0,
      track_segment         |-> TrackInitLoop(track_segments, veh, 0),
      segment_markers       |-> << >>,
      step_increment        |-> 0 ]

\* the counters rewound but the segments left as the lap ended
TrackResetIndexOnly(self) ==
    [ self EXCEPT
      !.current_segment_index = 0,
      !.segment_markers = << >>,
      !.step_increment = 0 ]

\* Track.reset
TrackReset(self) ==
    [ self EXCEPT
      !.current_segment_index = 0,
      !.segment_markers = << >>,
      !.step_increment = 0,
      !.track_segment =
          [ i \in DOMAIN self.track_segment |->
              [ self.track_segment[i] EXCEPT
                !.distance_travelled = 0,
                !.distance_remaining = self.track_segment[i].length,
                !.braking = FALSE ] ] ]

\* Track.is_driving
is_driving(self) == self.current_segment_index < Len(self.track_segment)

\* the segment Track.drive works on: track_segment[current_segment_index]
CurrentSegment(self) == self.track_segment[self.current_segment_index + 1]

\* the index advanced in every call, whatever update returned
TrackStoreAdvancing(self, segment, still_in_segment) ==
    [ self EXCEPT
      !.track_segment[self.current_segment_index + 1] = segment,
      !.current_segment_index = @ + 1,
      !.segment_markers = Append(@, self.step_increment),
      !.step_increment = @ + 1 ]

\* the assignments of Track.drive, given the segment after update and what it returned
TrackStore(self, segment, still_in_segment) ==
    [ self EXCEPT
      !.track_segment[self.current_segment_index + 1] = segment,
      !.current_segment_index = IF ~still_in_segment THEN @ + 1 ELSE @,
      !.segment_markers = IF ~still_in_segment THEN Append(@, self.step_increment) ELSE @,
      !.step_increment = @ + 1 ]

\* the drive command alone: the segment's progress left for later
TrackDriveCommandOnly(self, veh, dt) ==
    Bind(TrackSegmentDrive(CurrentSegment(self), veh), LAMBDA driven :
         << [ self EXCEPT !.track_segment[self.current_segment_index + 1] = driven[1],
                          !.step_increment = @ + 1 ],
            driven[2] >>)

\* Track.drive(vehicle, timestep): <<track, returned drive_value>>
TrackDrive(self, veh, dt) ==
    Bind(TrackSegmentDrive(CurrentSegment(self), veh), LAMBDA driven :
    Bind(TrackSegmentUpdate(driven[1], veh.kinematics.velocity, dt), LAMBDA updated :
         << TrackStore(self, updated[1], updated[2]), driven[2] >>))

----------------------------------------------------------------------------
(* Inputs: the vehicle and accumulator documents, the track definitions *)

\* laps asked for at the prompt: 1 .. MaxLaps
MaxLaps == 2

Drivetrain50W == [ gear_ratio |-> 120, power_limit |-> 5000000, regen_limit |-> 2000000 ]

Drivetrain5W ==
    [ gear_ratio |-> 120, power_limit |-> 500000, regen_limit |-> 100000,
      max_current |-> 100 ]

\* a 10 kg car, 50 W per motor, centre of gravity high enough to unload the front axle
VehicleA ==
    [ name |-> "A", mass |-> 10,
      dynamic_loading |-> [ cg_height |-> 30, wheel_base |-> 160 ],
      aerodynamics    |-> [ cd |-> 100, front_area |-> 100 ],
      FL_drivetrain |-> Drivetrain50W, FR_drivetrain |-> Drivetrain50W,
      RL_drivetrain |-> Drivetrain50W, RR_drivetrain |-> Drivetrain50W ]

\* a 12 kg car, 5 W per motor (power limited early), large drag area
VehicleB ==
    [ name |-> "B", mass |-> 12,
      dynamic_loading |-> [ cg_height |-> 20, wheel_base |-> 200 ],
      aerodynamics    |-> [ cd |-> 200, front_area |-> 50000 ],
      FL_drivetrain |-> Drivetrain5W, FR_drivetrain |-> Drivetrain5W,
      RL_drivetrain |-> Drivetrain5W, RR_drivetrain |-> Drivetrain5W ]

VehicleDocs == { VehicleA, VehicleB }

\* a 3.0 .. 4.2 V pack, 50 mOhm, 20 A
AccuCell(total_capacity_wh, max_current) ==
    [ nominal_voltage |-> 3600, max_voltage |-> 4200, min_voltage |-> 3000,
      min_voltage_ams_fault |-> 2800, total_capacity_wh |-> total_capacity_wh,
      max_current |-> max_current, max_power |-> 8000, total_mass |-> 50,
      num_series |-> 1, num_parallel |-> 2, internal_resistance |-> 50 ]

AccuDocs == { AccuCell(2000000, 2000), AccuCell(100000, 2000) }

Straight(length) == TrackSegmentNew(length, 0, 0)

Bend(bend_radius, bend_angle) == TrackSegmentNew(0, bend_radius, bend_angle)

\* the track definitions the runs are made on (lengths and radii in 1e-8 m)
TrackDefs ==
    { << Straight(60000) >>,
      << Straight(300000), Bend(150000, 30) >>,
      << Straight(20000), Bend(150000, 20), Straight(30000) >>,
      << Bend(60000, 45), Straight(150000), Bend(40000, 90) >> }

----------------------------------------------------------------------------
(* The driver: endurance.py from construction to the end of the lap loop *)

Init ==
    /\ pc = "for"
    /\ vehicle_parameters \in VehicleDocs
    /\ vehicle = VehicleNew(vehicle_parameters)
    /\ \E accu_params \in AccuDocs :
           accumulator = AccumulatorNew(accu_params, 100 * PercentScale, 25 * TempScale)
    /\ \E track_segments \in TrackDefs : track = TrackNew(track_segments, vehicle)
    /\ num_laps \in 1 .. MaxLaps
    /\ lap_num = 0
    /\ sim_time = 0
    /\ drive_value = 0
    /\ net_power = 0

\* the vehicle built anew at the head of every lap
LapResetRebuildingVehicle(veh) == VehicleNew(vehicle_parameters)

\* the per-lap reset: track.reset(), kinematics velocity and acceleration zeroed
LapReset(veh) ==
    [ veh EXCEPT !.kinematics.velocity = 0, !.kinematics.acceleration = 0 ]

\* the head of a lap with the accumulator's charge and temperature reset as well
LapStartResettingAccumulator ==
    /\ pc = "for"
    /\ lap_num < num_laps
    /\ lap_num' = lap_num + 1
    /\ sim_time' = 0
    /\ track' = TrackReset(track)
    /\ vehicle' = LapReset(vehicle)
    /\ accumulator' = [ accumulator EXCEPT !.energy_used_j = 0,
                                           !.cell_temp = accumulator.ambient_temp ]
    /\ pc' = "while"
    /\ UNCHANGED <<vehicle_parameters, num_laps, drive_value, net_power>>

\* for lap_num in range(1, num_laps + 1): the head of a lap, up to the while loop
LapStart ==
    /\ pc = "for"
    /\ lap_num < num_laps
    /\ lap_num' = lap_num + 1
    /\ sim_time' = 0
    /\ track' = TrackReset(track)
    /\ vehicle' = LapReset(vehicle)
    /\ pc' = "while"
    /\ UNCHANGED <<vehicle_parameters, accumulator, num_laps, drive_value, net_power>>

\* the lap loop is exhausted
LapsDone ==
    /\ pc = "for"
    /\ lap_num >= num_laps
    /\ pc' = "done"
    /\ UNCHANGED <<vehicle_parameters, vehicle, accumulator, track, lap_num, num_laps,
                   sim_time, drive_value, net_power>>

\* while track.is_driving(): track.drive(vehicle, timestep), the argument of vehicle.update
DriveStep ==
    /\ pc = "while"
    /\ is_driving(track)
    /\ \E driven \in { TrackDrive(track, vehicle, timestep) } :
           /\ track' = driven[1]
           /\ drive_value' = driven[2]
    /\ pc' = "vehicle_update"
    /\ UNCHANGED <<vehicle_parameters, vehicle, accumulator, lap_num, num_laps,
                   sim_time, net_power>>

\* vehicle.update(drive_value); sim_time += timestep
VehicleStep ==
    /\ pc = "vehicle_update"
    /\ vehicle' = VehicleUpdate(vehicle, drive_value)
    /\ sim_time' = sim_time + timestep
    /\ pc' = "accumulator_update"
    /\ UNCHANGED <<vehicle_parameters, accumulator, track, lap_num, num_laps,
                   drive_value, net_power>>

\* net_power = total_power - regen_power; accumulator.update(net_power, timestep)
AccumulatorStep ==
    /\ pc = "accumulator_update"
    /\ net_power' = get_total_power(vehicle) - get_total_regen(vehicle)
    /\ accumulator' = AccumulatorUpdate(accumulator, net_power', timestep)
    /\ pc' = "while"
    /\ UNCHANGED <<vehicle_parameters, vehicle, track, lap_num, num_laps,
                   sim_time, drive_value>>

\* the end of a lap: stop when the state of charge is below 5 %
LapEnd ==
    /\ pc = "while"
    /\ ~is_driving(track)
    /\ pc' = IF get_soc_percent(accumulator) < 5 * PercentScale THEN "done" ELSE "for"
    /\ UNCHANGED <<vehicle_parameters, vehicle, accumulator, track, lap_num, num_laps,
                   sim_time, drive_value, net_power>>

Next == LapStart \/ LapsDone \/ DriveStep \/ VehicleStep \/ AccumulatorStep \/ LapEnd

Spec == Init /\ [][Next]_vars

\* two short tracks: a straight, and a straight into a bend tight enough to brake for
FairTracks == { << Straight(8000) >>, << Straight(16000), Bend(4000, 90) >> }

\* Init on the short tracks
InitFair ==
    /\ pc = "for"
    /\ vehicle_parameters \in VehicleDocs
    /\ vehicle = VehicleNew(vehicle_parameters)
    /\ \E accu_params \in AccuDocs :
           accumulator = AccumulatorNew(accu_params, 100 * PercentScale, 25 * TempScale)
    /\ \E track_segments \in FairTracks : track = TrackNew(track_segments, vehicle)
    /\ num_laps \in 1 .. MaxLaps
    /\ lap_num = 0
    /\ sim_time = 0
    /\ drive_value = 0
    /\ net_power = 0

\* the program runs on: a step that can be taken is taken
SpecFair == InitFair /\ [][Next]_vars /\ WF_vars(Next)

----------------------------------------------------------------------------
(* Accumulator.update called on its own, with any power and timestep *)

\* calls made to Accumulator.update: 0 .. MaxCalls
MaxCalls == 3

\* accumulator documents: the 0.1 mWh pack, and one with a 2 A limit
AccuTestDocs == { AccuCell(100000, 2000), AccuCell(100000, 200) }

\* initial_soc_percent
InitialSocs == { 0, 50 * PercentScale, 100 * PercentScale }

\* power_draw_w: -400 W, -20 W, 0, 20 W, 400 W
PowerDraws == { -40000000, -2000000, 0, 2000000, 40000000 }

\* timestep: 0.1 ms and 10 ms
Timesteps == { 1, 100 }

InitAccumulator ==
    /\ pc = "accumulator"
    /\ vehicle_parameters = VehicleA
    /\ vehicle = VehicleNew(vehicle_parameters)
    /\ \E accu_params \in AccuTestDocs, initial_soc_percent \in InitialSocs :
           accumulator = AccumulatorNew(accu_params, initial_soc_percent, 25 * TempScale)
    /\ track = TrackNew(<< Straight(60000) >>, vehicle)
    /\ num_laps = 1
    /\ lap_num = 1
    /\ sim_time = 0
    /\ drive_value = 0
    /\ net_power = 0

\* accumulator.update(power_draw_w, dt); sim_time counts the calls
UpdateAccumulator ==
    /\ pc = "accumulator"
    /\ sim_time < MaxCalls
    /\ \E power_draw_w \in PowerDraws, dt \in Timesteps :
           /\ net_power' = power_draw_w
           /\ accumulator' = AccumulatorUpdate(accumulator, power_draw_w, dt)
    /\ sim_time' = sim_time + 1
    /\ UNCHANGED <<pc, vehicle_parameters, vehicle, track, lap_num, num_laps, drive_value>>

NextAccumulator == UpdateAccumulator

SpecAccumulator == InitAccumulator /\ [][NextAccumulator]_vars

----------------------------------------------------------------------------
(* Drivetrain.update called on its own, with any arguments *)

\* calls made to Drivetrain.update: 0 .. MaxDrivetrainCalls
MaxDrivetrainCalls == 2

\* vehicle_velocity: 0, 0.3 and 60 m/s
Velocities == { 0, 3000, 600000 }

\* fz: negative and positive normal load
Loads == { -100, 250 }

\* drive: full brake, coast, part throttle, full throttle
Drives == { -DriveScale, 0, 5000, DriveScale }

\* pack_voltage: negative, zero, 1 mV and the default
PackVoltages == { -1000, 0, 1, default_pack_voltage }

InitDrivetrain ==
    /\ pc = "drivetrain"
    /\ vehicle_parameters \in VehicleDocs
    /\ vehicle = VehicleNew(vehicle_parameters)
    /\ accumulator = AccumulatorNew(AccuCell(100000, 2000), 100 * PercentScale,
                                    25 * TempScale)
    /\ track = TrackNew(<< Straight(60000) >>, vehicle)
    /\ num_laps = 1
    /\ lap_num = 1
    /\ sim_time = 0
    /\ drive_value = 0
    /\ net_power = 0

\* vehicle.FL_drivetrain.update(vehicle_velocity, fz, drive, accumulator.pack_voltage):
\* the pack voltage handed over is the one the accumulator holds
UpdateDrivetrain ==
    /\ pc = "drivetrain"
    /\ sim_time < MaxDrivetrainCalls
    /\ \E vehicle_velocity \in Velocities, fz \in Loads, drive \in Drives,
          pack_voltage \in PackVoltages :
           /\ drive_value' = drive
           /\ accumulator' = [ accumulator EXCEPT !.pack_voltage = pack_voltage ]
           /\ vehicle' = [ vehicle EXCEPT
                           !.FL_drivetrain =
                               DrivetrainUpdate(@, vehicle_velocity, fz, drive,
                                                pack_voltage) ]
    /\ sim_time' = sim_time + 1
    /\ UNCHANGED <<pc, vehicle_parameters, track, lap_num, num_laps, net_power>>

NextDrivetrain == UpdateDrivetrain

SpecDrivetrain == InitDrivetrain /\ [][NextDrivetrain]_vars

----------------------------------------------------------------------------
(* Track.drive with the vehicle's velocity held constant *)

\* segments of a track: 1 .. MaxSegments
MaxSegments == 3

\* length of a segment: 1 .. MaxSegLen distance units
MaxSegLen == 4

\* the constant velocity: 1 .. MaxV velocity units
MaxV == 3

\* every track of 1 .. MaxSegments straights of length 1 .. MaxSegLen
StraightTracks ==
    UNION { [ 1 .. n -> { Straight(length) : length \in 1 .. MaxSegLen } ] :
            n \in 1 .. MaxSegments }

InitTrack ==
    /\ pc = "track"
    /\ vehicle_parameters = VehicleA
    /\ \E v \in 1 .. MaxV :
           vehicle = [ VehicleNew(vehicle_parameters) EXCEPT !.kinematics.velocity = v ]
    /\ accumulator = AccumulatorNew(AccuCell(100000, 2000), 100 * PercentScale,
                                    25 * TempScale)
    /\ \E track_segments \in StraightTracks : track = TrackNew(track_segments, vehicle)
    /\ num_laps = 1
    /\ lap_num = 1
    /\ sim_time = 0
    /\ drive_value = 0
    /\ net_power = 0

\* while track.is_driving(): track.drive(vehicle, timestep), vehicle.update left out
TrackStep ==
    /\ pc = "track"
    /\ is_driving(track)
    /\ \E driven \in { TrackDrive(track, vehicle, timestep) } :
           /\ track' = driven[1]
           /\ drive_value' = driven[2]
    /\ sim_time' = sim_time + timestep
    /\ UNCHANGED <<pc, vehicle_parameters, vehicle, accumulator, lap_num, num_laps,
                   net_power>>

NextTrack == TrackStep

SpecTrack == InitTrack /\ [][NextTrack]_vars

----------------------------------------------------------------------------
(* An accumulator at 50 % state of charge left idle: update(0, timestep),
   called MaxIdleCalls times *)

MaxIdleCalls == 1000

\* a pack whose nominal voltage is the middle of its voltage window, and one
\* whose nominal voltage is not
IdleDocs ==
    { AccuCell(100000, 2000),
      [ AccuCell(100000, 2000) EXCEPT !.nominal_voltage = 3700 ] }

\* initial_temp: ambient, and two pre-heated packs
IdleTemps == { 25 * TempScale, 35 * TempScale, 60 * TempScale }

InitIdle ==
    /\ pc = "idle"
    /\ vehicle_parameters = VehicleA
    /\ vehicle = VehicleNew(vehicle_parameters)
    /\ \E accu_params \in IdleDocs, initial_temp \in IdleTemps :
           accumulator = AccumulatorNew(accu_params, 50 * PercentScale, initial_temp)
    /\ track = TrackNew(<< Straight(60000) >>, vehicle)
    /\ num_laps = 1
    /\ lap_num = 1
    /\ sim_time = 0
    /\ drive_value = 0
    /\ net_power = 0

\* accumulator.update(0, timestep); sim_time counts the calls
UpdateIdle ==
    /\ pc = "idle"
    /\ sim_time < MaxIdleCalls
    /\ accumulator' = AccumulatorUpdate(accumulator, 0, timestep)
    /\ sim_time' = sim_time + 1
    /\ UNCHANGED <<pc, vehicle_parameters, vehicle, track, lap_num, num_laps,
                   drive_value, net_power>>

NextIdle == UpdateIdle

SpecIdle == InitIdle /\ [][NextIdle]_vars

----------------------------------------------------------------------------
(* A motor alone: MotorClass.update called MaxMotorCalls times *)

MaxMotorCalls == 2

\* power_limit: 5 W, 20 W, 50 W
MotorPowerLimits == { 500000, 2000000, 5000000 }

\* radial_velocity in 0.01 rad/s: reverse, standstill, crawling, cruising, just
\* below and inside the 600 rad/s derate band, at max_radial_velocity, above it
MotorVelocities == { -1770, 0, 100, 1770, 149000, 180000, 209438, 354330 }

\* torque_request in mNm: negative, none, small, moderate, above torque_limit
TorqueRequests == { -500, 0, 20, 635, 40000 }

\* the motor under test is the front-left one
Motor == vehicle.FL_drivetrain.motor

InitMotor ==
    /\ pc = "motor"
    /\ vehicle_parameters = VehicleA
    /\ \E power_limit \in MotorPowerLimits :
           vehicle = [ VehicleNew(vehicle_parameters) EXCEPT
                       !.FL_drivetrain.motor = MotorNew(power_limit) ]
    /\ \E accu_params \in AccuDocs :
           accumulator = AccumulatorNew(accu_params, 100 * PercentScale, 25 * TempScale)
    /\ track = TrackNew(<< Straight(60000) >>, VehicleNew(vehicle_parameters))
    /\ num_laps = 1
    /\ lap_num = 1
    /\ sim_time = 0
    /\ drive_value = 0
    /\ net_power = 0

\* motor.update(radial_velocity, torque_request); sim_time counts the calls
UpdateMotor ==
    /\ pc = "motor"
    /\ sim_time < MaxMotorCalls
    /\ \E radial_velocity \in MotorVelocities, torque_request \in TorqueRequests :
           vehicle' = [ vehicle EXCEPT !.FL_drivetrain.motor =
                            MotorUpdate(@, radial_velocity, torque_request) ]
    /\ sim_time' = sim_time + 1
    /\ UNCHANGED <<pc, vehicle_parameters, accumulator, track, lap_num, num_laps,
                   drive_value, net_power>>

NextMotor == UpdateMotor

SpecMotor == InitMotor /\ [][NextMotor]_vars

----------------------------------------------------------------------------
(* Claims about Accumulator.update, under SpecAccumulator *)

\* C1: after any call of Accumulator.update, for any power draw (positive, zero or
\* negative), min_voltage <= pack_voltage <= max_voltage.
C1_PackVoltageWithinLimits ==
    sim_time > 0 =>
        /\ accumulator.min_voltage <= accumulator.pack_voltage
        /\ accumulator.pack_voltage <= accumulator.max_voltage

\* a discharge whose sag would take the pack below min_voltage: the lower limit acted
C1_Witness ==
    /\ pc = "accumulator"
    /\ sim_time > 0
    /\ net_power > 0
    /\ accumulator.voltage_sag > 0
    /\ accumulator.pack_voltage = accumulator.min_voltage

\* C2: an update whose power_draw_w exceeds max_current * open-circuit voltage (with
\* open-circuit voltage > 0) leaves current_discharge_a equal to max_current.
C2_CurrentSaturates ==
    [][ ( /\ pc = "accumulator"
          /\ sim_time' = sim_time + 1
          /\ open_circuit_voltage(accumulator) > 0
          /\ net_power' > Mul(accumulator.max_current, open_circuit_voltage(accumulator)) )
        => accumulator'.current_discharge_a = accumulator.max_current ]_vars

\* 400 W asked of a pack that can give at most max_current: the current is max_current
C2_Witness ==
    /\ pc = "accumulator"
    /\ sim_time > 0
    /\ net_power = 40000000
    /\ accumulator.current_discharge_a = accumulator.max_current

\* C3 (regen half), under Spec: an accumulator.update of the lap loop with
\* power_draw_w < 0 never leaves energy_used_j higher than before the call, the regen
\* over-voltage branch included.
C3_RegenNeverRaisesEnergy ==
    [][ ( /\ pc = "accumulator_update"
          /\ pc' = "while"
          /\ net_power' < 0 )
        => accumulator'.energy_used_j <= accumulator.energy_used_j ]_vars

----------------------------------------------------------------------------
(* Claims about Drivetrain.update, under SpecDrivetrain *)

\* C4: Drivetrain.update leaves motor.power_limit unchanged for every velocity, load,
\* drive command and pack voltage, so it always equals the configured power limit.
C4_PowerLimitRestored ==
    pc = "drivetrain" =>
        vehicle.FL_drivetrain.motor.power_limit = vehicle_parameters.FL_drivetrain.power_limit

\* the motor ran below its RPM derate with less torque available than the configured
\* power limit allows: the step was made with a voltage-derated limit
C4_Witness ==
    /\ pc = "drivetrain"
    /\ sim_time > 0
    /\ vehicle.FL_drivetrain.motor.radial_velocity > 0
    /\ vehicle.FL_drivetrain.motor.max_radial_velocity
         - vehicle.FL_drivetrain.motor.radial_velocity >= 600 * WScale
    /\ vehicle.FL_drivetrain.motor.producable_torque < vehicle.FL_drivetrain.motor.torque_limit
    /\ Mul(vehicle.FL_drivetrain.motor.producable_torque + 1,
           vehicle.FL_drivetrain.motor.radial_velocity)
         < vehicle.FL_drivetrain.motor.power_limit

----------------------------------------------------------------------------
(* Claims about Track and the lap loop, under Spec *)

\* number of segments of the track
NumSegments == Len(track.track_segment)

\* the step is a call of Track.drive
IsTrackDrive == pc = "while" /\ pc' = "vehicle_update"

\* the step is the head of a lap, which calls Track.reset
IsTrackReset == pc = "for" /\ pc' = "while"

\* the segment driven in this step ended the step past its length
ReportsCompletion ==
    track'.track_segment[track.current_segment_index + 1].distance_travelled
      > track.track_segment[track.current_segment_index + 1].length

\* C5 as stated: current_segment_index changes only inside Track.drive, only by +1 and
\* only when the segment's update reports completion; it never exceeds the number of
\* segments, and no segment beyond the last is driven.
C5_IndexChangesOnlyInDrive ==
    [][ /\ track'.current_segment_index # track.current_segment_index
           => /\ IsTrackDrive
              /\ track'.current_segment_index = track.current_segment_index + 1
              /\ ReportsCompletion
        /\ track'.current_segment_index <= NumSegments
        /\ IsTrackDrive => track.current_segment_index < NumSegments ]_vars

\* C5 amended: current_segment_index changes only inside Track.drive (by +1, exactly
\* when the segment's update reports completion) or inside Track.reset (back to 0);
\* it never exceeds the number of segments, is_driving() is false exactly when it
\* equals that number, and no segment beyond the last is driven.
C5_IndexChangesInDriveOrReset ==
    [][ /\ track'.current_segment_index # track.current_segment_index
           => \/ /\ IsTrackDrive
                 /\ track'.current_segment_index = track.current_segment_index + 1
              \/ /\ IsTrackReset
                 /\ track'.current_segment_index = 0
        /\ IsTrackDrive
           => /\ track.current_segment_index < NumSegments
              /\ ReportsCompletion
                   <=> track'.current_segment_index = track.current_segment_index + 1
        /\ track'.current_segment_index <= NumSegments
        /\ is_driving(track') <=> track'.current_segment_index # NumSegments ]_vars

\* the second lap has just begun: Track.reset took the index from the end back to 0
C5_Witness ==
    /\ pc = "while"
    /\ lap_num = 2
    /\ NumSegments > 1
    /\ track.current_segment_index = 0
    /\ track.step_increment = 0

\* C6: a braking flag that is set stays set through every later drive and update call;
\* only Track.reset clears it.
C6_BrakingSticky ==
    [][ \A i \in DOMAIN track.track_segment :
            (track.track_segment[i].braking /\ ~track'.track_segment[i].braking)
              => IsTrackReset ]_vars

\* the flag of the current segment is set although the braking point test no longer
\* holds: the vehicle has slowed down since the flag was set
C6_Witness ==
    /\ pc = "while"
    /\ is_driving(track)
    /\ CurrentSegment(track).braking
    /\ CurrentSegment(track).distance_travelled > 0
    /\ ~ReachedBrakingPoint(CurrentSegment(track), vehicle)

\* C7: every segment's exit_velocity is the next segment's velocity_limit, the last
\* segment's is the default 1000, and no drive, update or reset changes that.
C7_ExitVelocityIsNextLimit ==
    /\ \A i \in 1 .. NumSegments - 1 :
           track.track_segment[i].exit_velocity = track.track_segment[i + 1].velocity_limit
    /\ track.track_segment[NumSegments].exit_velocity = 1000 * VScale

\* a two-lap run on a track with a bend is over: drives, updates and a reset are behind
C7_Witness ==
    /\ pc = "done"
    /\ lap_num = 2
    /\ NumSegments > 1
    /\ \E i \in 1 .. NumSegments - 1 :
           track.track_segment[i].exit_velocity < 1000 * VScale

\* segment i is a straight followed by a bend with a lower velocity limit
StraightBeforeSlowerBend(i) ==
    /\ i < NumSegments
    /\ track.track_segment[i].bend_radius = 0
    /\ track.track_segment[i + 1].bend_radius # 0
    /\ track.track_segment[i + 1].velocity_limit < track.track_segment[i].velocity_limit

\* C9 as stated: a straight before a slower bend has its braking flag set before it
\* completes, so once the index has passed it the flag is set.
C9_BrakingBeforeEveryBend ==
    \A i \in DOMAIN track.track_segment :
        (StraightBeforeSlowerBend(i) /\ track.current_segment_index >= i)
          => track.track_segment[i].braking

\* C9 amended: on a straight before a slower bend, a drive call sets the flag exactly
\* when distance_remaining <= braking_distance(exit_velocity, grip force); while the
\* vehicle is slower than the bend's limit and distance_remaining > 0 the flag is not
\* set, so a run that stays below the limit completes the straight unflagged.
C9_BrakingAtBrakingPoint ==
    [][ \A i \in DOMAIN track.track_segment :
            ( /\ IsTrackDrive
              /\ track.current_segment_index + 1 = i
              /\ StraightBeforeSlowerBend(i) )
            => /\ track'.track_segment[i].braking
                    <=> \/ track.track_segment[i].braking
                        \/ ReachedBrakingPoint(track.track_segment[i], vehicle)
               /\ ( /\ ~track.track_segment[i].braking
                    /\ track.track_segment[i].distance_remaining > 0
                    /\ vehicle.kinematics.velocity < track.track_segment[i].exit_velocity )
                  => ~track'.track_segment[i].braking ]_vars

\* a straight before a slower bend is being driven with the flag set and distance left
C9_Witness ==
    /\ pc = "vehicle_update"
    /\ is_driving(track)
    /\ StraightBeforeSlowerBend(track.current_segment_index + 1)
    /\ CurrentSegment(track).braking
    /\ CurrentSegment(track).distance_remaining > 0

\* C10: the head of a lap (Track.reset, velocity and acceleration zeroed) leaves every
\* field of the accumulator as the lap before left it.
C10_ResetKeepsAccumulator ==
    [][ IsTrackReset => accumulator' = accumulator ]_vars

\* the second lap begins with the charge the first lap used still counted
C10_Witness ==
    /\ pc = "while"
    /\ lap_num = 2
    /\ sim_time = 0
    /\ vehicle.kinematics.velocity = 0
    /\ accumulator.energy_used_j > 0
    /\ accumulator.cell_temp > accumulator.ambient_temp

----------------------------------------------------------------------------
(* Claim about the step count at constant velocity, under SpecTrack *)

\* total length of segments 1 .. n
RECURSIVE LengthUpTo(_)
LengthUpTo(n) ==
    IF n = 0 THEN 0 ELSE LengthUpTo(n - 1) + track.track_segment[n].length

\* distance covered in one step at the held velocity
StepDistance == vehicle.kinematics.velocity * timestep

\* ceil(L / (v * dt))
CeilSteps == (LengthUpTo(NumSegments) + StepDistance - 1) \div StepDistance

\* steps segments 1 .. n take: each one floor(length / (v * dt)) + 1
RECURSIVE StepsUpTo(_)
StepsUpTo(n) ==
    IF n = 0 THEN 0
    ELSE StepsUpTo(n - 1) + track.track_segment[n].length \div StepDistance + 1

\* C8 as stated: the number of Track.drive steps until is_driving() is false is
\* within one step of ceil(L / (v * dt)).
C8_StepsWithinOneOfCeil ==
    (pc = "track" /\ ~is_driving(track))
      => /\ track.step_increment >= CeilSteps - 1
         /\ track.step_increment <= CeilSteps + 1

\* C8 amended: the number of steps is the sum over the segments of
\* floor(length / (v * dt)) + 1, which lies between ceil(L / (v * dt)) and that plus
\* the number of segments; is_driving() is true before that step and false after it.
C8_StepsPerSegment ==
    pc = "track"
      => /\ is_driving(track) <=> track.step_increment < StepsUpTo(NumSegments)
         /\ track.step_increment <= StepsUpTo(NumSegments)
         /\ StepsUpTo(NumSegments) >= CeilSteps
         /\ StepsUpTo(NumSegments) <= CeilSteps + NumSegments

\* three segments, each a whole number of steps long, are done: one extra step each
C8_Witness ==
    /\ pc = "track"
    /\ ~is_driving(track)
    /\ NumSegments = 3
    /\ track.step_increment = CeilSteps + 3

----------------------------------------------------------------------------
(* C11: Track.reset against the state Track.__init__ leaves *)

\* the track as Track.__init__ leaves it for the segments and the vehicle of this run
PostConstruction ==
    TrackNew([ i \in DOMAIN track.track_segment |->
                 TrackSegmentNew(track.track_segment[i].length,
                                 track.track_segment[i].bend_radius, 0) ],
             VehicleNew(vehicle_parameters))

\* C11: whatever drive calls came before (a lap in progress, looked at right
\* after each Track.drive call, or a finished one), Track.reset gives the track Track.__init__ built: index 0, step_increment 0,
\* no markers, every segment with nothing travelled, its whole length remaining
\* and braking cleared, its length, velocity_limit and exit_velocity as
\* computed at construction; and the lap loop's reset leaves is_driving() true.
C11_ResetRestoresConstruction ==
    [][ /\ pc = "vehicle_update" => TrackReset(track) = PostConstruction
        /\ IsTrackReset
           => /\ track' = PostConstruction
              /\ track'.current_segment_index = 0
              /\ track'.step_increment = 0
              /\ track'.segment_markers = << >>
              /\ \A i \in DOMAIN track.track_segment :
                    /\ track'.track_segment[i].distance_travelled = 0
                    /\ track'.track_segment[i].distance_remaining
                         = track.track_segment[i].length
                    /\ track'.track_segment[i].braking = FALSE
                    /\ track'.track_segment[i].length = track.track_segment[i].length
                    /\ track'.track_segment[i].velocity_limit
                         = track.track_segment[i].velocity_limit
                    /\ track'.track_segment[i].exit_velocity
                         = track.track_segment[i].exit_velocity
              /\ Len(track.track_segment) > 0 => is_driving(track') ]_vars

\* the second lap is about to start on a track whose first lap set a braking flag
C11_Witness ==
    /\ pc = "for"
    /\ lap_num = 1
    /\ num_laps = 2
    /\ ~is_driving(track)
    /\ Len(track.segment_markers) = Len(track.track_segment)
    /\ \E i \in DOMAIN track.track_segment : track.track_segment[i].braking

----------------------------------------------------------------------------
(* C12: the idle accumulator *)

\* the distance of the cell temperature from ambient
TempOffset(self) == Abs(self.cell_temp - self.ambient_temp)

\* the state of charge and the temperature clauses of C12, for one call
IdleKeepsChargeAndTemperature ==
    /\ get_soc_percent(accumulator') = get_soc_percent(accumulator)
    /\ get_soc_percent(accumulator') = 50 * PercentScale
    /\ accumulator.cell_temp = accumulator.ambient_temp
         => accumulator'.cell_temp = accumulator.cell_temp
    /\ accumulator.cell_temp > accumulator.ambient_temp
         => TempOffset(accumulator') <= TempOffset(accumulator)

\* C12 as stated: every update(0, timestep) of the accumulator at 50 % leaves the
\* state of charge, the pack voltage and (from ambient) the cell temperature what
\* they were before the call, the first call included; a pre-heated cell never
\* moves away from ambient.
C12_IdleKeepsInitialValues ==
    [][ pc = "idle"
        => /\ IdleKeepsChargeAndTemperature
           /\ accumulator'.pack_voltage = accumulator.pack_voltage ]_vars

\* C12, amended: the state of charge and (from ambient) the cell temperature stay
\* what they were before the first call and a pre-heated cell never moves away
\* from ambient; the pack voltage is the open-circuit voltage at 50 % after every
\* call, which the first call may have moved it to from the nominal voltage the
\* constructor set.
C12_IdleKeepsChargeAndTemperature ==
    [][ pc = "idle"
        => /\ IdleKeepsChargeAndTemperature
           /\ accumulator'.pack_voltage
                = accumulator.min_voltage
                    + (accumulator.max_voltage - accumulator.min_voltage) \div 2
           /\ sim_time >= 1 => accumulator'.pack_voltage = accumulator.pack_voltage ]_vars

\* all the calls made on a pre-heated pack whose nominal voltage is not the
\* open-circuit voltage at 50 %: cooler than it started, not yet at ambient
C12_Witness ==
    /\ pc = "idle"
    /\ sim_time = MaxIdleCalls
    /\ accumulator.pack_voltage # accumulator.nominal_voltage
    /\ accumulator.cell_temp > accumulator.ambient_temp
    /\ accumulator.cell_temp < 35 * TempScale

----------------------------------------------------------------------------
(* C13: discharge always lowers the state of charge *)

\* get_soc_percent before its division by usable_capacity_j: the energy left
SocNumerator(self) == self.usable_capacity_j - self.energy_used_j

\* C13: every update call with power_draw_w > 0 leaves get_soc_percent() strictly
\* lower than it was before the call, whether or not the current was clamped
\* to max_current and also once the state of charge is at or below zero. The
\* two values are compared exactly, as fractions of the same positive
\* usable_capacity_j, and again as the percentages cut to 0.001 %.
C13_DischargeLowersSoc ==
    [][ (pc = "accumulator" /\ net_power' > 0)
        => /\ accumulator'.usable_capacity_j = accumulator.usable_capacity_j
           /\ accumulator.usable_capacity_j > 0
           /\ SocNumerator(accumulator') < SocNumerator(accumulator)
           /\ get_soc_percent(accumulator') <= get_soc_percent(accumulator) ]_vars

\* a clamped discharge call made on a pack already at or below zero charge
C13_Witness ==
    /\ pc = "accumulator"
    /\ sim_time >= 2
    /\ net_power > 0
    /\ accumulator.current_discharge_a = accumulator.max_current
    /\ get_soc_percent(accumulator) < 0

----------------------------------------------------------------------------
(* C14: the torque a motor applies against its power and torque limits *)

\* min(power_limit / radial_velocity, torque_limit), torque_limit at standstill
TorqueCeiling(self) ==
    IF self.radial_velocity # 0
    THEN Min(Div(self.power_limit, self.radial_velocity), self.torque_limit)
    ELSE self.torque_limit

\* C14: after every Motor.update, torque <= producable_torque, and
\* producable_torque <= min(power_limit / radial_velocity, torque_limit) when
\* radial_velocity # 0, producable_torque <= torque_limit when it is 0.
C14_TorqueWithinCeiling ==
    (pc = "motor" /\ sim_time >= 1)
    => /\ Motor.torque <= Motor.producable_torque
       /\ Motor.producable_torque <= TorqueCeiling(Motor)

\* a request above what the motor can produce inside the derate band: the torque
\* is the producable torque, strictly below the ceiling
C14_Witness ==
    /\ pc = "motor"
    /\ sim_time >= 1
    /\ Motor.radial_velocity > Motor.max_radial_velocity - 600 * WScale
    /\ Motor.radial_velocity < Motor.max_radial_velocity
    /\ Motor.torque_request > Motor.producable_torque
    /\ Motor.torque = Motor.producable_torque
    /\ Motor.producable_torque > 0
    /\ Motor.producable_torque < TorqueCeiling(Motor)

----------------------------------------------------------------------------
(* C20: the motor above its maximum speed *)

\* C20: after a Motor.update with radial_velocity above max_radial_velocity the
\* producable torque is negative (the derate factor is), and for every torque
\* request >= 0 the applied torque is that negative torque and motor.power is
\* negative.
C20_NegativeTorqueAboveMaxSpeed ==
    (pc = "motor" /\ sim_time >= 1 /\ Motor.radial_velocity > Motor.max_radial_velocity)
    => /\ Motor.producable_torque < 0
       /\ Motor.torque_request >= 0
            => /\ Motor.torque = Motor.producable_torque
               /\ Motor.torque < 0
               /\ Motor.power < 0

\* a positive request served above max_radial_velocity with a negative torque
C20_Witness ==
    /\ pc = "motor"
    /\ sim_time >= 1
    /\ Motor.radial_velocity > Motor.max_radial_velocity
    /\ Motor.torque_request > 0
    /\ Motor.torque < 0
    /\ Motor.power < 0

----------------------------------------------------------------------------
(* C15: the order of the sub-steps of one simulation step *)

\* how far the lap has got: the current index and every segment's distance
Progress(self) ==
    << self.current_segment_index,
       [ i \in DOMAIN self.track_segment |-> self.track_segment[i].distance_travelled ] >>

\* C15 as stated: obtaining the drive command from the track leaves the segment
\* progress alone; it is advanced as the last action of the step, after
\* Accumulator.update, by the velocity that step's Vehicle.update produced.
C15_ProgressAdvancedLast ==
    [][ /\ IsTrackDrive => Progress(track') = Progress(track)
        /\ (pc = "accumulator_update" /\ is_driving(track))
             => CurrentSegment(track').distance_travelled
                  = CurrentSegment(track).distance_travelled
                      + vehicle.kinematics.velocity * timestep ]_vars

\* C15, amended: a step is Track.drive, then Vehicle.update with the command it
\* returned, then the power aggregation and Accumulator.update. Track.drive
\* itself advances the current segment by the velocity the previous step left
\* and rolls over to the next segment, before Vehicle.update runs; Vehicle.update
\* and Accumulator.update leave the track alone.
C15_ProgressAdvancedFirst ==
    [][ /\ pc = "while" /\ is_driving(track)
           => /\ pc' = "vehicle_update"
              /\ track'.track_segment[track.current_segment_index + 1].distance_travelled
                   = CurrentSegment(track).distance_travelled
                       + vehicle.kinematics.velocity * timestep
              /\ track'.current_segment_index
                   = IF CurrentSegment(track).distance_travelled
                          + vehicle.kinematics.velocity * timestep
                        > CurrentSegment(track).length
                     THEN track.current_segment_index + 1
                     ELSE track.current_segment_index
              /\ drive_value' = TrackSegmentDrive(CurrentSegment(track), vehicle)[2]
              /\ vehicle' = vehicle
              /\ accumulator' = accumulator
        /\ pc = "vehicle_update"
           => /\ pc' = "accumulator_update"
              /\ vehicle' = VehicleUpdate(vehicle, drive_value)
              /\ track' = track
              /\ accumulator' = accumulator
        /\ pc = "accumulator_update"
           => /\ pc' = "while"
              /\ net_power' = get_total_power(vehicle) - get_total_regen(vehicle)
              /\ track' = track
              /\ vehicle' = vehicle ]_vars

\* Track.drive has returned and Vehicle.update has not yet run: the segment has
\* already moved on by the velocity of the step before
C15_Witness ==
    /\ pc = "vehicle_update"
    /\ is_driving(track)
    /\ track.step_increment >= 2
    /\ vehicle.kinematics.velocity > 0
    /\ CurrentSegment(track).distance_travelled > 0
    /\ track.step_increment * timestep = sim_time + timestep

----------------------------------------------------------------------------
(* C16: the step in which a segment is reported complete *)

\* distance_travelled of the current segment once this step's update has added to it
DistanceAfterStep == CurrentSegment(track).distance_travelled + StepDistance

\* C16 as stated: Track.drive moves on from a segment in the first step at which
\* its distance_travelled >= length, a step that lands exactly on the length
\* included.
C16_CompleteAtLength ==
    [][ pc = "track"
        => /\ CurrentSegment(track).distance_travelled < CurrentSegment(track).length
           /\ track'.current_segment_index = track.current_segment_index + 1
                <=> DistanceAfterStep >= CurrentSegment(track).length ]_vars

\* C16, amended: Track.drive moves on from a segment in the first step at which
\* its distance_travelled > length; a step that lands exactly on the length
\* leaves the segment current, and the step after it completes it.
C16_CompleteBeyondLength ==
    [][ pc = "track"
        => /\ CurrentSegment(track).distance_travelled <= CurrentSegment(track).length
           /\ track'.current_segment_index = track.current_segment_index + 1
                <=> DistanceAfterStep > CurrentSegment(track).length
           /\ track'.current_segment_index = track.current_segment_index
                <=> DistanceAfterStep <= CurrentSegment(track).length ]_vars

\* a step has landed exactly on the end of the segment, which is still current
C16_Witness ==
    /\ pc = "track"
    /\ is_driving(track)
    /\ track.step_increment > 0
    /\ CurrentSegment(track).distance_travelled = CurrentSegment(track).length
    /\ CurrentSegment(track).distance_remaining = 0

----------------------------------------------------------------------------
(* C17: the drive command of a segment *)

\* a velocity error as a drive command, clamped to [-1, 1]
ClampedCommand(velocity_error) ==
    Max(-DriveScale, Min(DriveScale, MulDiv(velocity_error, DriveScale, VScale)))

\* the segment Track.drive has just driven, as that call left it
DrivenSegment == track'.track_segment[track.current_segment_index + 1]

\* C17: the command TrackSegment.drive returns is in [-1, 1]: with the braking
\* flag not set it is clamp(velocity_limit - velocity); with the flag set and
\* velocity > exit_velocity it is exactly -1; with the flag set and
\* velocity <= exit_velocity it is clamp(exit_velocity - velocity), which is >= 0.
C17_DriveCommand ==
    [][ IsTrackDrive
        => /\ drive_value' >= -DriveScale
           /\ drive_value' <= DriveScale
           /\ ~DrivenSegment.braking
                => drive_value'
                     = ClampedCommand(DrivenSegment.velocity_limit - vehicle.kinematics.velocity)
           /\ (DrivenSegment.braking
                 /\ vehicle.kinematics.velocity > DrivenSegment.exit_velocity)
                => drive_value' = -DriveScale
           /\ (DrivenSegment.braking
                 /\ vehicle.kinematics.velocity <= DrivenSegment.exit_velocity)
                => /\ drive_value'
                        = ClampedCommand(DrivenSegment.exit_velocity
                                           - vehicle.kinematics.velocity)
                   /\ drive_value' >= 0 ]_vars

\* the flag is set and the vehicle is just below the exit velocity: a command
\* strictly between 0 and 1 has been returned and not yet applied
C17_Witness ==
    /\ pc = "vehicle_update"
    /\ is_driving(track)
    /\ CurrentSegment(track).braking
    /\ vehicle.kinematics.velocity < CurrentSegment(track).exit_velocity
    /\ drive_value > 0
    /\ drive_value < DriveScale
    /\ drive_value
         = ClampedCommand(CurrentSegment(track).exit_velocity - vehicle.kinematics.velocity)

----------------------------------------------------------------------------
(* C18, C19: regenerated power and the voltage-derated power limit, for one
   drivetrain *)

\* the drivetrain before and after the call
DrivetrainBefore == vehicle.FL_drivetrain

DrivetrainAfter == vehicle'.FL_drivetrain

\* -(brake torque) * tyre radial velocity, the brake torque being the drive command
\* times the grip-torque ceiling the tyre holds when update is entered
BrakingPower ==
    Mul(-MulDiv(drive_value', DrivetrainBefore.tyre.produceable_grip_torque, DriveScale),
        DrivetrainAfter.tyre.radial_velocity)

\* C18: after every Drivetrain.update regen_power <= regen_limit; it is exactly 0
\* when drive >= 0; for drive < 0 it is min(regen_limit, -(brake torque) * tyre
\* radial velocity) with brake torque = drive * the tyre's grip-torque ceiling,
\* and it is >= 0 for non-negative vehicle velocity and normal loads.
C18_RegenPower ==
    [][ pc = "drivetrain"
        => /\ DrivetrainAfter.regen_power <= DrivetrainAfter.regen_limit
           /\ drive_value' >= 0 => DrivetrainAfter.regen_power = 0
           /\ drive_value' < 0
                => DrivetrainAfter.regen_power
                     = Min(DrivetrainAfter.regen_limit, BrakingPower)
           /\ (/\ drive_value' < 0
               /\ DrivetrainAfter.tyre.radial_velocity >= 0
               /\ DrivetrainBefore.tyre.fz >= 0
               /\ DrivetrainAfter.tyre.fz >= 0)
                => /\ DrivetrainBefore.tyre.produceable_grip_torque >= 0
                   /\ DrivetrainAfter.regen_power >= 0 ]_vars

\* full braking at speed on a loaded tyre: the braking power exceeds regen_limit
\* and regen_power is the limit
C18_Witness ==
    /\ pc = "drivetrain"
    /\ sim_time >= 1
    /\ drive_value < 0
    /\ vehicle.FL_drivetrain.tyre.radial_velocity > 0
    /\ vehicle.FL_drivetrain.tyre.torque < 0
    /\ vehicle.FL_drivetrain.regen_power = vehicle.FL_drivetrain.regen_limit
    /\ vehicle.FL_drivetrain.regen_power > 0

\* min(nominal limit, pack_voltage * max_current) for pack_voltage > 0, else nominal
PowerCeiling ==
    IF accumulator'.pack_voltage > 0
    THEN Min(DrivetrainBefore.motor.power_limit,
             Mul(accumulator'.pack_voltage, DrivetrainBefore.max_current))
    ELSE DrivetrainBefore.motor.power_limit

\* C19: Drivetrain.update steps the motor with the power limit
\* min(nominal limit, pack_voltage * max_current) when pack_voltage > 0 and with
\* the nominal limit when pack_voltage <= 0; for a motor radial velocity in
\* [0, max_radial_velocity] motor.power after the step is at most that ceiling.
C19_PowerWithinVoltageCeiling ==
    [][ pc = "drivetrain"
        => /\ DrivetrainAfter.motor
                = [ MotorUpdate([ DrivetrainBefore.motor EXCEPT !.power_limit = PowerCeiling ],
                                DrivetrainAfter.motor.radial_velocity,
                                DrivetrainAfter.motor.torque_request)
                    EXCEPT !.power_limit = DrivetrainBefore.motor.power_limit ]
           /\ (/\ DrivetrainAfter.motor.radial_velocity >= 0
               /\ DrivetrainAfter.motor.radial_velocity
                    <= DrivetrainAfter.motor.max_radial_velocity)
                => DrivetrainAfter.motor.power <= PowerCeiling ]_vars

\* a turning motor asked for torque at a pack voltage of 1 mV: it delivers power,
\* less than its nominal limit would have allowed
C19_Witness ==
    /\ pc = "drivetrain"
    /\ sim_time >= 1
    /\ accumulator.pack_voltage = 1
    /\ vehicle.FL_drivetrain.motor.radial_velocity > 0
    /\ vehicle.FL_drivetrain.motor.torque_request > vehicle.FL_drivetrain.motor.torque
    /\ vehicle.FL_drivetrain.motor.power > 0
    /\ vehicle.FL_drivetrain.motor.power
         <= Mul(accumulator.pack_voltage, vehicle.FL_drivetrain.max_current)
    /\ Mul(accumulator.pack_voltage, vehicle.FL_drivetrain.max_current)
         < vehicle.FL_drivetrain.motor.power_limit

----------------------------------------------------------------------------
(* C23: the current limit, regen included *)

\* C23: after any Accumulator.update, whatever the sign of power_draw_w and the
\* state of charge, current_discharge_a <= max_current; the regen over-voltage
\* branch in particular never yields a current above max_current.
C23_CurrentWithinMax ==
    accumulator.current_discharge_a <= accumulator.max_current

----------------------------------------------------------------------------
(* C22: load transfer moves load between the axles and keeps the total *)

\* 1.5 * mass * 10: the friction coefficient of every tyre times the weight
StaticGripForce == MulDiv(vehicle.dynamic_loading.weight, TyreNew.friction_coefficient, TenthScale)

\* C22: the two front loads are equal, the two rear loads are equal, the four add
\* up to mass * 10, and the vehicle's producable_grip_force is 1.5 * mass * 10,
\* the value the bend velocity limits were computed from at track construction,
\* whatever the drive command and the load transfer.
C22_GripForceConstant ==
    pc \in { "for", "while", "vehicle_update", "accumulator_update", "done" }
    => /\ vehicle.dynamic_loading.FL_z = vehicle.dynamic_loading.FR_z
       /\ vehicle.dynamic_loading.RL_z = vehicle.dynamic_loading.RR_z
       /\ vehicle.dynamic_loading.FL_z + vehicle.dynamic_loading.FR_z
            + vehicle.dynamic_loading.RL_z + vehicle.dynamic_loading.RR_z
            = vehicle.mass * 10 * FScale
       /\ vehicle.producable_grip_force = StaticGripForce
       /\ vehicle.producable_grip_force = VehicleNew(vehicle_parameters).producable_grip_force

\* a vehicle under way with load shifted to the rear axle by its acceleration
C22_Witness ==
    /\ pc = "while"
    /\ sim_time >= 2
    /\ vehicle.kinematics.velocity > 0
    /\ vehicle.dynamic_loading.FL_z < vehicle.dynamic_loading.RL_z
    /\ vehicle.FL_drivetrain.tyre.producable_grip_force
         < vehicle.RL_drivetrain.tyre.producable_grip_force
    /\ vehicle.producable_grip_force = StaticGripForce

----------------------------------------------------------------------------
(* C24: the vehicle and the track do not read the accumulator *)

\* the corner loads Vehicle.update hands to the drivetrains in this step
LoadsOfStep == DynamicLoadingUpdate(vehicle.dynamic_loading, vehicle.longitudinal_force)

\* C24: every step of the vehicle and of the track is a function of the vehicle,
\* the track and the drive command alone: Vehicle.update steps the four
\* drivetrains at the default pack voltage of 489.6 V, Track.drive and the lap
\* reset read only the vehicle and the track, and Accumulator.update changes
\* neither. Two runs that differ only in the accumulator therefore show the same
\* drive command, velocity, segment index, motor power and regen power step by
\* step.
C24_VehicleIgnoresAccumulator ==
    [][ /\ pc = "vehicle_update"
           => /\ vehicle'.FL_drivetrain
                   = DrivetrainUpdate(vehicle.FL_drivetrain, vehicle.kinematics.velocity,
                                      LoadsOfStep.FL_z, drive_value, default_pack_voltage)
              /\ vehicle'.FR_drivetrain
                   = DrivetrainUpdate(vehicle.FR_drivetrain, vehicle.kinematics.velocity,
                                      LoadsOfStep.FR_z, drive_value, default_pack_voltage)
              /\ vehicle'.RL_drivetrain
                   = DrivetrainUpdate(vehicle.RL_drivetrain, vehicle.kinematics.velocity,
                                      LoadsOfStep.RL_z, drive_value, default_pack_voltage)
              /\ vehicle'.RR_drivetrain
                   = DrivetrainUpdate(vehicle.RR_drivetrain, vehicle.kinematics.velocity,
                                      LoadsOfStep.RR_z, drive_value, default_pack_voltage)
              /\ vehicle'.kinematics
                   = KinematicsUpdate(vehicle.kinematics, vehicle'.longitudinal_force)
              /\ track' = track
              /\ drive_value' = drive_value
        /\ IsTrackDrive
           => /\ <<track', drive_value'>> = TrackDrive(track, vehicle, timestep)
              /\ vehicle' = vehicle
        /\ pc = "accumulator_update"
           => /\ vehicle' = vehicle
              /\ track' = track
              /\ drive_value' = drive_value
        /\ IsTrackReset
           => /\ vehicle' = LapReset(vehicle)
              /\ track' = TrackReset(track)
              /\ drive_value' = drive_value
        /\ pc \in { "for", "while" } /\ pc' \in { "for", "done" }
           => /\ vehicle' = vehicle
              /\ track' = track
              /\ drive_value' = drive_value ]_vars

\* a motor has just delivered more power than the accumulator's pack voltage times
\* the drivetrain's max_current: the pack's voltage did not derate it
C24_Witness ==
    /\ pc = "accumulator_update"
    /\ vehicle.FL_drivetrain.motor.power
         > Mul(accumulator.pack_voltage, vehicle.FL_drivetrain.max_current)
    /\ vehicle.FL_drivetrain.motor.power <= vehicle.FL_drivetrain.motor.power_limit

----------------------------------------------------------------------------
(* C25: what the per-lap reset leaves in the vehicle *)

\* the state of one drivetrain the claim lists: tyre, motor and regen_power
CarriedOver(drivetrain) == << drivetrain.tyre, drivetrain.motor, drivetrain.regen_power >>

\* the four drivetrains
DrivetrainNames == { "FL_drivetrain", "FR_drivetrain", "RL_drivetrain", "RR_drivetrain" }

\* C25: the per-lap reset changes only the track's progress and the vehicle's
\* kinematics.velocity and kinematics.acceleration; longitudinal_force,
\* vehicle_tractive_force, the four corner loads and every drivetrain's tyre,
\* motor and regen_power keep the values the previous lap ended with, and the
\* first Vehicle.update of the lap takes its load transfer and its motor speed
\* from them.
C25_ResetKeepsForceState ==
    [][ /\ IsTrackReset
           => /\ vehicle' = [ vehicle EXCEPT !.kinematics.velocity = 0,
                                              !.kinematics.acceleration = 0 ]
              /\ vehicle'.longitudinal_force = vehicle.longitudinal_force
              /\ vehicle'.vehicle_tractive_force = vehicle.vehicle_tractive_force
              /\ vehicle'.dynamic_loading = vehicle.dynamic_loading
              /\ \A d \in DrivetrainNames : CarriedOver(vehicle'[d]) = CarriedOver(vehicle[d])
              /\ vehicle'.kinematics.velocity = 0
              /\ vehicle'.kinematics.acceleration = 0
              /\ accumulator' = accumulator
              /\ track' = TrackReset(track)
        /\ (pc = "vehicle_update" /\ sim_time = 0)
           => /\ vehicle'.dynamic_loading
                   = DynamicLoadingUpdate(vehicle.dynamic_loading, vehicle.longitudinal_force)
              /\ \A d \in DrivetrainNames :
                    vehicle'[d].motor.radial_velocity
                      = velocity_wheel_to_motor(vehicle[d].gearbox,
                                                vehicle[d].tyre.radial_velocity) ]_vars

\* the first step of the second lap is done: the vehicle started it at rest, and
\* its motor was stepped at the speed the wheels had when the first lap ended
C25_Witness ==
    /\ pc = "accumulator_update"
    /\ lap_num = 2
    /\ sim_time = timestep
    /\ vehicle.FL_drivetrain.tyre.radial_velocity = 0
    /\ vehicle.FL_drivetrain.motor.radial_velocity > 0

----------------------------------------------------------------------------
(* C21: every lap ends *)

\* the one step the program can take next: at most one of the six guards holds,
\* and no step draws an input
GuardsHolding ==
    Cardinality({ g \in 1 .. 6 :
        \/ g = 1 /\ pc = "for" /\ lap_num < num_laps
        \/ g = 2 /\ pc = "for" /\ lap_num >= num_laps
        \/ g = 3 /\ pc = "while" /\ is_driving(track)
        \/ g = 4 /\ pc = "vehicle_update"
        \/ g = 5 /\ pc = "accumulator_update"
        \/ g = 6 /\ pc = "while" /\ ~is_driving(track) })

====
